---- MODULE Spec2Model ----
(***************************************************************************)
(* Real-time synchronisation core of the lglr frontend:                    *)
(*   - useWebSocket    (frontend/src/hooks/useWebSocket.ts)                *)
(*   - useTransactions (frontend/src/hooks/useTransactions.ts)             *)
(*   - api client      (frontend/src/api.ts)                               *)
(*   - TransactionForm (frontend/src/components/TransactionForm.tsx)       *)
(* The browser event loop is run-to-completion: every action below is one  *)
(* whole handler (socket event, timer callback, promise continuation).     *)
(***************************************************************************)
EXTENDS Integers, Sequences, FiniteSets, TLC

VARIABLES
    \* ---- useWebSocket: React state and refs (one hook instance) ----
    isMounted,            \* isMounted[s]: the closure flag of effect run s
    session,              \* session[s]: the deps of effect run s (url validity, reconnectInterval)
    sockets,              \* every WebSocket object constructed so far
    wsRef,                \* wsRef.current (0 = null)
    reconnectTimeoutRef,  \* reconnectTimeoutRef.current (0 = undefined)
    pingIntervalRef,      \* pingIntervalRef.current (0 = undefined)
    timeouts,             \* pending window.setTimeout callbacks
    intervals,            \* active window.setInterval callbacks
    nextTimerId,          \* next id handed out by setTimeout / setInterval
    isConnected,          \* useState(false)
    lastMessage,          \* useState(null): <<>> for null, <<message>> otherwise
    lastData,             \* event.data of the latest message event (<<>> before the first)
    attempts,             \* attempts[s]: number of `new WebSocket` evaluations of session s
    closes,               \* closes[s]: number of close events of sockets of session s
    warnings,             \* number of console.warn calls made by ws.onmessage
    errorLogged,          \* TRUE once ws.onerror has logged an error event
    dispatch,             \* the subscriber calls made for the latest message event, in order
    onMessageRef,         \* onMessageRef.current: the onMessage callback held (by number)
    calledBack,           \* the callbacks invoked for the latest message event, in order
    \* ---- useTransactions / App / TransactionForm ----
    transactions,         \* useState<Transaction[]>([])
    isLoading,            \* useState(true)
    error,                \* useState(null)
    selectedId,           \* App: useState(null)
    toasts,               \* number of messages handed to the toast subscriber
    monto,                \* form: amount field ("" = empty)
    isSubmitting,         \* form: in-flight guard
    intent,               \* the logical create action the form currently holds (0 = none)
    appMounted,           \* FALSE once the App component has been unmounted
    \* ---- requests in flight and the remote store ----
    requests,             \* fetch calls that have not settled yet
    nextRid,              \* number of fetch calls made so far
    nextUuid,             \* number of crypto.randomUUID() values drawn so far
    remote,               \* the authoritative list, newest first
    keyMap,               \* idempotency key -> transaction id, as kept by the remote store
    sentKeys,             \* every (request, intent, Idempotency-Key) put on the wire
    returned,             \* every (request, intent, transaction id) a create call resolved with
    asked,                \* every (request, transaction id) process call put on the wire
    accepted,             \* every (request, transaction id, job id) a process call resolved with
    jobs,                 \* the remote store's queue of processing jobs (transaction ids)
    pushed,               \* events the remote store has broadcast, not yet delivered
    dropped,              \* status_changed events delivered while their id was not in the list
    \* ---- inputs of the pure reconciliation function ----
    fnPrev, fnMessage, fnOnce, fnTwice, fnPc,
    fnStore,              \* the list after the messages of fnLog were handled, in order
    fnLog,                \* the messages handled so far, in receipt order
    \* ---- input and result of one call of the api client's request() ----
    reqIn,                \* the path requested and the Response fetch resolved with
    reqOut                \* <<>> before the call settles, then <<what the caller gets>>

hookVars == <<isMounted, session, sockets, wsRef, reconnectTimeoutRef, pingIntervalRef,
              timeouts, intervals, nextTimerId, isConnected, lastMessage, lastData,
              attempts, closes, warnings, errorLogged, dispatch,
              onMessageRef, calledBack>>
appVars  == <<transactions, isLoading, error, selectedId, toasts, monto, isSubmitting,
              intent, appMounted>>
netVars  == <<requests, nextRid, nextUuid, remote, keyMap, sentKeys, returned,
              asked, accepted, jobs, pushed, dropped>>
fnVars   == <<fnPrev, fnMessage, fnOnce, fnTwice, fnPc, fnStore, fnLog, reqIn, reqOut>>
vars     == <<hookVars, appVars, netVars, fnVars>>

----------------------------------------------------------------------------
\* Bounds of the model
MaxAttempts == 3     \* connection attempts (made or already scheduled) over all sessions
MaxAppAttempts == 2  \* the same, in the specification of the whole App
MaxAppFrames == 1    \* frames delivered, in the specification of the whole App
MaxSessions == 2     \* runs of the connection effect
MaxFrames   == 2     \* frames delivered over all sockets
MaxPings    == 2     \* liveness frames sent over all sockets
MaxCreates  == 2     \* create requests issued
MaxIntents  == 2     \* create actions started by the user
MaxStore    == 2     \* length of the lists drawn for the pure reconciliation function
MaxProcess  == 1     \* process requests issued
MaxProcCreates == 1  \* create requests issued, in the specification with processing
MaxClicks   == 2     \* clicks on a Process button, in the specification of repeated clicks
MaxCallbacks == 2    \* onMessage callbacks handed to the hook
MaxCbAttempts == 2   \* connection attempts, in the specification of changing callbacks
MaxCbFrames == 2     \* frames delivered, in the specification of changing callbacks

\* Program constants
DefaultReconnectInterval == 3000
PingInterval == 25000

NONE == "none"       \* an absent optional field (undefined / null)

TransactionStatus == {"pendiente", "procesado", "fallido", "cancelado"}
\* the ids the remote store assigns, in creation order
TxIds == <<"x1", "x2", "x3", "x4", "x5">>

----------------------------------------------------------------------------
\* useWebSocket: the hook's refs, state and the browser objects it owns, as one value
Hook ==
    [isMounted |-> isMounted, session |-> session, sockets |-> sockets, wsRef |-> wsRef,
     reconnectTimeoutRef |-> reconnectTimeoutRef, pingIntervalRef |-> pingIntervalRef,
     timeouts |-> timeouts, intervals |-> intervals, nextTimerId |-> nextTimerId,
     isConnected |-> isConnected, lastMessage |-> lastMessage, lastData |-> lastData,
     attempts |-> attempts, closes |-> closes, warnings |-> warnings,
     errorLogged |-> errorLogged, dispatch |-> dispatch,
     onMessageRef |-> onMessageRef, calledBack |-> calledBack,
     transactions |-> transactions, toasts |-> toasts]

SetHook(h) ==
    /\ isMounted' = h.isMounted
    /\ session' = h.session
    /\ sockets' = h.sockets
    /\ wsRef' = h.wsRef
    /\ reconnectTimeoutRef' = h.reconnectTimeoutRef
    /\ pingIntervalRef' = h.pingIntervalRef
    /\ timeouts' = h.timeouts
    /\ intervals' = h.intervals
    /\ nextTimerId' = h.nextTimerId
    /\ isConnected' = h.isConnected
    /\ lastMessage' = h.lastMessage
    /\ lastData' = h.lastData
    /\ attempts' = h.attempts
    /\ closes' = h.closes
    /\ warnings' = h.warnings
    /\ errorLogged' = h.errorLogged
    /\ dispatch' = h.dispatch
    /\ onMessageRef' = h.onMessageRef
    /\ calledBack' = h.calledBack
    /\ transactions' = h.transactions
    /\ toasts' = h.toasts

\* (variant) the reconnect delay grows with the attempts made: a backoff
scheduleReconnect_backoff(h, s) ==
    [h EXCEPT !.timeouts = @ \cup {[id |-> h.nextTimerId, session |-> s,
                                    delay |-> h.session[s].reconnectInterval
                                              * (h.attempts[s] + 1)]},
              !.reconnectTimeoutRef = h.nextTimerId,
              !.nextTimerId = @ + 1]

\* window.setTimeout(connect, reconnectInterval) stored in reconnectTimeoutRef.current
scheduleReconnect(h, s) ==
    [h EXCEPT !.timeouts = @ \cup {[id |-> h.nextTimerId, session |-> s,
                                    delay |-> h.session[s].reconnectInterval]},
              !.reconnectTimeoutRef = h.nextTimerId,
              !.nextTimerId = @ + 1]

\* (variant) connect whose catch block logs the failure and schedules nothing
connect_noRetry(h, s) ==
    IF ~h.isMounted[s] THEN h
    ELSE LET h1 == [h EXCEPT !.attempts[s] = @ + 1] IN
         IF h.session[s].urlOk
         THEN [h1 EXCEPT !.sockets = Append(@, [session |-> s, readyState |-> "CONNECTING",
                                                wasOpen |-> FALSE, received |-> 0,
                                                pings |-> 0]),
                         !.wsRef = Len(h.sockets) + 1]
         ELSE h1

\* connect(): the guarded construction of a socket; the constructor throws for a url
\* it cannot parse, and the catch block schedules a reconnect
connect(h, s) ==
    IF ~h.isMounted[s] THEN h
    ELSE LET h1 == [h EXCEPT !.attempts[s] = @ + 1] IN
         IF h.session[s].urlOk
         THEN [h1 EXCEPT !.sockets = Append(@, [session |-> s, readyState |-> "CONNECTING",
                                                wasOpen |-> FALSE, received |-> 0,
                                                pings |-> 0]),
                         !.wsRef = Len(h.sockets) + 1]
         ELSE scheduleReconnect(h1, s)

\* (variant) onopen that starts no keepalive interval
onopen_noKeepalive(h, k) ==
    LET s == h.sockets[k].session IN
    IF ~h.isMounted[s] THEN h
    ELSE [h EXCEPT !.isConnected = TRUE]

\* ws.onopen
onopen(h, k) ==
    LET s == h.sockets[k].session IN
    IF ~h.isMounted[s] THEN h
    ELSE [h EXCEPT !.isConnected = TRUE,
                   !.intervals = @ \cup {[id |-> h.nextTimerId, socket |-> k,
                                          every |-> PingInterval]},
                   !.pingIntervalRef = h.nextTimerId,
                   !.nextTimerId = @ + 1]

\* the callback of the keepalive setInterval created by onopen of socket k
pingTick(h, k) ==
    IF h.sockets[k].readyState = "OPEN"
    THEN [h EXCEPT !.sockets[k].pings = @ + 1]
    ELSE h

\* clearInterval / clearTimeout of the id a ref holds (a stale id clears nothing)
clearInterval(h, id) == [h EXCEPT !.intervals = {t \in @ : t.id # id}]
clearTimeout(h, id)  == [h EXCEPT !.timeouts = {t \in @ : t.id # id}]

\* (variant) onclose that leaves the keepalive interval running
onclose_keepsPing(h, k) ==
    LET s == h.sockets[k].session IN
    IF ~h.isMounted[s] THEN h
    ELSE scheduleReconnect([h EXCEPT !.isConnected = FALSE], s)

\* (variant) onclose without the isMounted guard
onclose_unguarded(h, k) ==
    LET s == h.sockets[k].session
        h1 == [h EXCEPT !.isConnected = FALSE]
        h2 == IF h1.pingIntervalRef # 0 THEN clearInterval(h1, h1.pingIntervalRef) ELSE h1
    IN scheduleReconnect(h2, s)

\* (variant) onclose that reconnects at once and arms the reconnect timeout as well
onclose_reconnectsNow(h, k) ==
    LET s == h.sockets[k].session IN
    IF ~h.isMounted[s] THEN h
    ELSE LET h1 == [h EXCEPT !.isConnected = FALSE]
             h2 == IF h1.pingIntervalRef # 0 THEN clearInterval(h1, h1.pingIntervalRef) ELSE h1
         IN connect(scheduleReconnect(h2, s), s)

\* ws.onclose
onclose(h, k) ==
    LET s == h.sockets[k].session IN
    IF ~h.isMounted[s] THEN h
    ELSE LET h1 == [h EXCEPT !.isConnected = FALSE]
             h2 == IF h1.pingIntervalRef # 0 THEN clearInterval(h1, h1.pingIntervalRef) ELSE h1
         IN scheduleReconnect(h2, s)

\* (variant) onerror that schedules a reconnect of its own, before the close event
onerror_reconnects(h, k) ==
    IF ~h.isMounted[h.sockets[k].session] THEN [h EXCEPT !.errorLogged = TRUE]
    ELSE scheduleReconnect([h EXCEPT !.errorLogged = TRUE], h.sockets[k].session)

\* ws.onerror: console.error, nothing else
onerror(h, k) == [h EXCEPT !.errorLogged = TRUE]

\* (variant) cleanup that closes the socket and stops the keepalive but leaves the
\* reconnect timeout armed
cleanup_keepsTimer(h, s) ==
    LET h1 == [h EXCEPT !.isMounted[s] = FALSE]
        h2 == IF h1.wsRef # 0 /\ h1.sockets[h1.wsRef].readyState \in {"CONNECTING", "OPEN"}
              THEN [h1 EXCEPT !.sockets[h1.wsRef].readyState = "CLOSING"]
              ELSE h1
    IN IF h2.pingIntervalRef # 0 THEN clearInterval(h2, h2.pingIntervalRef) ELSE h2

\* (variant) cleanup that leaves the keepalive interval running
cleanup_keepsPing(h, s) ==
    LET h1 == [h EXCEPT !.isMounted[s] = FALSE]
        h2 == IF h1.wsRef # 0 /\ h1.sockets[h1.wsRef].readyState \in {"CONNECTING", "OPEN"}
              THEN [h1 EXCEPT !.sockets[h1.wsRef].readyState = "CLOSING"]
              ELSE h1
    IN IF h2.reconnectTimeoutRef # 0 THEN clearTimeout(h2, h2.reconnectTimeoutRef) ELSE h2

\* the cleanup returned by the connection effect of session s
cleanup(h, s) ==
    LET h1 == [h EXCEPT !.isMounted[s] = FALSE]
        \* wsRef.current.close(): CONNECTING/OPEN -> CLOSING, otherwise nothing
        h2 == IF h1.wsRef # 0 /\ h1.sockets[h1.wsRef].readyState \in {"CONNECTING", "OPEN"}
              THEN [h1 EXCEPT !.sockets[h1.wsRef].readyState = "CLOSING"]
              ELSE h1
        h3 == IF h2.reconnectTimeoutRef # 0 THEN clearTimeout(h2, h2.reconnectTimeoutRef) ELSE h2
    IN IF h3.pingIntervalRef # 0 THEN clearInterval(h3, h3.pingIntervalRef) ELSE h3

\* a run of the connection effect: let isMounted = true; connect()
startSession(h, deps) ==
    LET s == Len(h.isMounted) + 1
        h1 == [h EXCEPT !.isMounted = Append(@, TRUE),
                        !.session = Append(@, deps),
                        !.attempts = Append(@, 0),
                        !.closes = Append(@, 0)]
    IN connect(h1, s)

\* (variant) onMessage listed among the deps of the connection effect: a new callback
\* runs the cleanup and the effect again
onMessageEffect_reconnects(h, onMessage) ==
    LET s == Len(h.isMounted)
    IN startSession(cleanup([h EXCEPT !.onMessageRef = onMessage], s), h.session[s])

\* the effect that keeps the ref current: onMessageRef.current = onMessage
onMessageEffect(h, onMessage) == [h EXCEPT !.onMessageRef = onMessage]

----------------------------------------------------------------------------
\* Frames and messages

\* JavaScript falsiness of an optional string field: undefined, null or ''
Falsy(x) == x \in {NONE, ""}

StatusChanged == "transaction.status_changed"

\* a WSMessage (types.ts); an absent optional field is NONE
Message(ev, id, st, ts, ty) ==
    [event |-> ev, transaction_id |-> id, old_status |-> NONE, new_status |-> st,
     timestamp |-> ts, type |-> ty]

\* the same message carrying old_status
WithOld(m, old) == [m EXCEPT !.old_status = old]

\* a transaction_id that is not a string: the JSON number 7
NumberId == "#7"

\* event.data of a message event: the literal 'pong', text that is not JSON, or the
\* JSON text of an object
Pong == [kind |-> "pong", msg |-> Message(NONE, NONE, NONE, NONE, NONE)]
Malformed == [kind |-> "text", msg |-> Message(NONE, NONE, NONE, NONE, NONE)]
Json(m) == [kind |-> "json", msg |-> m]

\* a Transaction (types.ts)
Tx(id, st, ts) ==
    [id |-> id, user_id |-> "u", monto |-> "100.50", tipo |-> "ingreso",
     status |-> st, created_at |-> "t1", updated_at |-> ts]

\* (variant) reconciliation that inserts a record for an id it does not hold
handleWSMessage_upsert(prev, message) ==
    IF message.event = StatusChanged /\ ~Falsy(message.transaction_id)
         /\ ~Falsy(message.new_status)
    THEN IF \E i \in DOMAIN prev : prev[i].id = message.transaction_id
         THEN [i \in DOMAIN prev |->
                 IF prev[i].id = message.transaction_id
                 THEN [prev[i] EXCEPT !.status = message.new_status,
                                      !.updated_at = IF Falsy(message.timestamp)
                                                     THEN @ ELSE message.timestamp]
                 ELSE prev[i]]
         ELSE <<Tx(message.transaction_id, message.new_status, "t1")>> \o prev
    ELSE prev

\* (variant) reconciliation that replaces the status and forgets updated_at
handleWSMessage_statusOnly(prev, message) ==
    IF message.event = StatusChanged /\ ~Falsy(message.transaction_id)
    THEN [i \in DOMAIN prev |->
            IF prev[i].id = message.transaction_id /\ ~Falsy(message.new_status)
            THEN [prev[i] EXCEPT !.status = message.new_status]
            ELSE prev[i]]
    ELSE prev

\* (variant) reconciliation that treats a status other than pendiente as final: an event
\* for a transaction that has already left pendiente is discarded
handleWSMessage_keepsFinal(prev, message) ==
    IF message.event = StatusChanged /\ ~Falsy(message.transaction_id)
    THEN [i \in DOMAIN prev |->
            IF prev[i].id = message.transaction_id /\ ~Falsy(message.new_status)
                 /\ prev[i].status = "pendiente"
            THEN [prev[i] EXCEPT !.status = message.new_status,
                                 !.updated_at = IF Falsy(message.timestamp)
                                                THEN @ ELSE message.timestamp]
            ELSE prev[i]]
    ELSE prev

\* (variant) reconciliation that keeps the superseded record after the updated one
handleWSMessage_keepsHistory(prev, message) ==
    IF message.event = StatusChanged /\ ~Falsy(message.transaction_id)
         /\ ~Falsy(message.new_status)
         /\ \E i \in DOMAIN prev : prev[i].id = message.transaction_id
    THEN LET i == CHOOSE j \in DOMAIN prev : prev[j].id = message.transaction_id IN
         SubSeq(prev, 1, i - 1)
           \o <<[prev[i] EXCEPT !.status = message.new_status,
                                !.updated_at = IF Falsy(message.timestamp)
                                               THEN @ ELSE message.timestamp]>>
           \o SubSeq(prev, i, Len(prev))
    ELSE prev

\* (variant) the updater applies an event only to a record whose status is the
\* event's old_status
handleWSMessage_checksOld(prev, message) ==
    IF message.event = StatusChanged /\ ~Falsy(message.transaction_id)
    THEN [i \in DOMAIN prev |->
            IF /\ prev[i].id = message.transaction_id
               /\ ~Falsy(message.new_status)
               /\ (Falsy(message.old_status) \/ message.old_status = prev[i].status)
            THEN [prev[i] EXCEPT !.status = message.new_status,
                                 !.updated_at = IF Falsy(message.timestamp)
                                                THEN @ ELSE message.timestamp]
            ELSE prev[i]]
    ELSE prev

\* (variant) the updater also stamps created_at with the event's timestamp
handleWSMessage_stampsCreated(prev, message) ==
    IF message.event = StatusChanged /\ ~Falsy(message.transaction_id)
    THEN [i \in DOMAIN prev |->
            IF prev[i].id = message.transaction_id /\ ~Falsy(message.new_status)
            THEN [prev[i] EXCEPT !.status = message.new_status,
                                 !.created_at = IF Falsy(message.timestamp)
                                                THEN @ ELSE message.timestamp,
                                 !.updated_at = IF Falsy(message.timestamp)
                                                THEN @ ELSE message.timestamp]
            ELSE prev[i]]
    ELSE prev

\* (variant) the handler does not look at the event tag
handleWSMessage_anyEvent(prev, message) ==
    IF ~Falsy(message.transaction_id)
    THEN [i \in DOMAIN prev |->
            IF prev[i].id = message.transaction_id /\ ~Falsy(message.new_status)
            THEN [prev[i] EXCEPT !.status = message.new_status,
                                 !.updated_at = IF Falsy(message.timestamp)
                                                THEN @ ELSE message.timestamp]
            ELSE prev[i]]
    ELSE prev

\* useTransactions.handleWSMessage, as the updater it hands to setTransactions
handleWSMessage(prev, message) ==
    IF message.event = StatusChanged /\ ~Falsy(message.transaction_id)
    THEN [i \in DOMAIN prev |->
            IF prev[i].id = message.transaction_id /\ ~Falsy(message.new_status)
            THEN [prev[i] EXCEPT !.status = message.new_status,
                                 !.updated_at = IF Falsy(message.timestamp)
                                                THEN @ ELSE message.timestamp]
            ELSE prev[i]]
    ELSE prev

\* useToast.handleWSMessage: one toast per status_changed message
toastHandler(n, message) == IF message.event = StatusChanged THEN n + 1 ELSE n

\* useToast.handleWSMessage throws a TypeError when message.transaction_id?.slice is
\* not a function: a status_changed message whose transaction_id is truthy, not a string
toastThrows(message) ==
    message.event = StatusChanged /\ message.transaction_id = NumberId

\* one subscriber call, as recorded in dispatch
Call(to, threw) == [to |-> to, threw |-> threw]

\* the latest subscriber call ended in an exception
Threw(h) == h.dispatch # <<>> /\ h.dispatch[Len(h.dispatch)].threw

\* (variant) the toast handler is registered before the store's handler
Subscribers_toastFirst == <<"toast", "store">>

\* the handlers App.onWSMessage calls, in the order it calls them
Subscribers == <<"store", "toast">>

\* one handler called with the message
callSubscriber(h, to, message) ==
    IF to = "store"
    THEN [h EXCEPT !.transactions = handleWSMessage(@, message),
                   !.dispatch = Append(@, Call("store", FALSE))]
    ELSE IF toastThrows(message)
         THEN [h EXCEPT !.dispatch = Append(@, Call("toast", TRUE))]
         ELSE [h EXCEPT !.toasts = toastHandler(@, message),
                        !.dispatch = Append(@, Call("toast", FALSE))]

\* the statements of a function body in sequence: an exception ends the body
RECURSIVE callInOrder(_, _, _)
callInOrder(h, subs, message) ==
    IF subs = <<>> \/ Threw(h) THEN h
    ELSE callInOrder(callSubscriber(h, Head(subs), message), Tail(subs), message)

\* (variant) onWSMessage that calls its first handler only
onWSMessage_firstOnly(h, message) == callSubscriber(h, Head(Subscribers), message)

\* App.onWSMessage: handleWSMessage(message); toastHandler(message) - no try around
\* either call
onWSMessage(h, message) == callInOrder(h, Subscribers, message)

\* the end of the try block of ws.onmessage: setLastMessage(message), then
\* onMessageRef.current?.(message); the catch logs whatever the subscriber throws
dispatchMessage(h, message) ==
    LET h1 == onWSMessage([h EXCEPT !.lastMessage = <<message>>,
                                    !.calledBack = Append(@, h.onMessageRef)], message)
    IN IF Threw(h1) THEN [h1 EXCEPT !.warnings = @ + 1] ELSE h1

\* (variant) onmessage without the isMounted guard
onmessage_unguarded(h, k, data) ==
    IF data.kind = "pong" THEN h
    ELSE IF data.kind # "json" THEN [h EXCEPT !.warnings = @ + 1]
    ELSE IF data.msg.type = "keepalive" THEN h
    ELSE dispatchMessage(h, data.msg)

\* (variant) onmessage that gives up the connection on a frame it cannot parse
onmessage_closesOnMalformed(h, k, data) ==
    LET s == h.sockets[k].session IN
    IF ~h.isMounted[s] THEN h
    ELSE IF data.kind = "pong" THEN h
    ELSE IF data.kind # "json"
         THEN [h EXCEPT !.warnings = @ + 1, !.sockets[k].readyState = "CLOSING"]
    ELSE IF data.msg.type = "keepalive" THEN h
    ELSE dispatchMessage(h, data.msg)

\* (variant) onmessage without the test of message.type
onmessage_forwardsKeepalive(h, k, data) ==
    LET s == h.sockets[k].session IN
    IF ~h.isMounted[s] THEN h
    ELSE IF data.kind = "pong" THEN h
    ELSE IF data.kind # "json" THEN [h EXCEPT !.warnings = @ + 1]
    ELSE dispatchMessage(h, data.msg)

\* (variant) onmessage without the test for 'pong': the literal goes to JSON.parse,
\* which throws
onmessage_parsesPong(h, k, data) ==
    LET s == h.sockets[k].session IN
    IF ~h.isMounted[s] THEN h
    ELSE IF data.kind # "json" THEN [h EXCEPT !.warnings = @ + 1]
    ELSE IF data.msg.type = "keepalive" THEN h
    ELSE dispatchMessage(h, data.msg)

\* ws.onmessage of socket k for event.data = data
onmessage(h, k, data) ==
    LET s == h.sockets[k].session IN
    IF ~h.isMounted[s] THEN h
    ELSE IF data.kind = "pong" THEN h
    ELSE IF data.kind # "json"                        \* JSON.parse throws: warn, drop
         THEN [h EXCEPT !.warnings = @ + 1]
    ELSE IF data.msg.type = "keepalive" THEN h
    ELSE dispatchMessage(h, data.msg)

----------------------------------------------------------------------------
\* Socket events, timers and the effect, as steps of the event loop

RECURSIVE SumSeq(_)
SumSeq(q) == IF q = <<>> THEN 0 ELSE Head(q) + SumSeq(Tail(q))

\* connection attempts made, plus those already owed (an armed reconnect timer)
Budget(h) == SumSeq(h.attempts) + Cardinality(h.timeouts)

Received(h) == SumSeq([k \in DOMAIN h.sockets |-> h.sockets[k].received])
Pings(h) == SumSeq([k \in DOMAIN h.sockets |-> h.sockets[k].pings])

HookStep(h, cap) == Budget(h) <= cap /\ SetHook(h)

currentSession == Len(isMounted)

\* the open event of socket k: readyState becomes OPEN, then ws.onopen runs
OnOpen(k, cap) ==
    /\ sockets[k].readyState = "CONNECTING"
    /\ HookStep(onopen([Hook EXCEPT !.sockets[k].readyState = "OPEN",
                                    !.sockets[k].wasOpen = TRUE], k), cap)
    /\ UNCHANGED <<isLoading, error, selectedId, monto, isSubmitting, intent, appMounted,
                   netVars, fnVars>>

\* the connection of socket k fails: in one task readyState becomes CLOSED, the error
\* event fires (ws.onerror) and the close event fires (ws.onclose)
OnError(k, cap) ==
    /\ sockets[k].readyState \in {"CONNECTING", "OPEN", "CLOSING"}
    /\ LET h1 == [Hook EXCEPT !.sockets[k].readyState = "CLOSED",
                              !.closes[sockets[k].session] = @ + 1]
       IN HookStep(onclose(onerror(h1, k), k), cap)
    /\ UNCHANGED <<isLoading, error, selectedId, monto, isSubmitting, intent, appMounted,
                   netVars, fnVars>>

\* the close event of socket k without an error (closed by the peer, or the closing
\* handshake that close() started completes): readyState is CLOSED, then ws.onclose runs
OnClose(k, cap) ==
    /\ sockets[k].readyState \in {"CONNECTING", "OPEN", "CLOSING"}
    /\ HookStep(onclose([Hook EXCEPT !.sockets[k].readyState = "CLOSED",
                                     !.closes[sockets[k].session] = @ + 1], k), cap)
    /\ UNCHANGED <<isLoading, error, selectedId, monto, isSubmitting, intent, appMounted,
                   netVars, fnVars>>

\* a pending reconnect timeout fires: connect()
ReconnectTimer(t, cap) ==
    /\ t \in timeouts
    /\ HookStep(connect([Hook EXCEPT !.timeouts = @ \ {t}], t.session), cap)
    /\ UNCHANGED <<isLoading, error, selectedId, monto, isSubmitting, intent, appMounted,
                   netVars, fnVars>>

\* a tick of an active keepalive interval
PingTimer(i, cap) ==
    /\ i \in intervals
    /\ Pings(Hook) < cap
    /\ SetHook(pingTick(Hook, i.socket))
    /\ UNCHANGED <<isLoading, error, selectedId, monto, isSubmitting, intent, appMounted,
                   netVars, fnVars>>

\* a message event of socket k; an event queued on an open socket before close() was
\* called is still delivered
OnMessage(k, data, cap) ==
    /\ \/ sockets[k].readyState = "OPEN"
       \/ sockets[k].readyState = "CLOSING" /\ sockets[k].wasOpen
    /\ Received(Hook) < cap
    /\ SetHook(onmessage([Hook EXCEPT !.sockets[k].received = @ + 1,
                                       !.lastData = <<data>>,
                                       !.dispatch = <<>>,
                                       !.calledBack = <<>>], k, data))
    /\ UNCHANGED <<isLoading, error, selectedId, monto, isSubmitting, intent, appMounted,
                   netVars, fnVars>>

\* url or reconnectInterval changes: the effect's cleanup, then the effect again
ChangeDeps(deps, cap, sessionCap) ==
    /\ appMounted
    /\ deps # session[currentSession]
    /\ Len(isMounted) < sessionCap
    /\ HookStep(startSession(cleanup(Hook, currentSession), deps), cap)
    /\ UNCHANGED <<isLoading, error, selectedId, monto, isSubmitting, intent, appMounted,
                   netVars, fnVars>>

\* the owner renders with a new onMessage callback: the effect of the ref runs, and the
\* connection effect does not, as its deps are url and reconnectInterval
ChangeOnMessage(cap) ==
    /\ appMounted
    /\ onMessageRef < cap
    /\ SetHook(onMessageEffect(Hook, onMessageRef + 1))
    /\ UNCHANGED <<isLoading, error, selectedId, monto, isSubmitting, intent, appMounted,
                   netVars, fnVars>>

\* the component unmounts: the effect's cleanup runs and nothing is started again
Unmount ==
    /\ appMounted
    /\ appMounted' = FALSE
    /\ SetHook(cleanup(Hook, currentSession))
    /\ UNCHANGED <<isLoading, error, selectedId, monto, isSubmitting, intent,
                   netVars, fnVars>>

----------------------------------------------------------------------------
\* api client, the form, and the remote store

\* a Response as fetch resolves with it: response.ok, response.status and the body text
Response(ok, status, body) == [ok |-> ok, status |-> status, body |-> body]

\* body texts of success responses: a Transaction, a list of one, a job handle
TxText ==
    "{\"id\":\"x1\",\"user_id\":\"u\",\"monto\":\"100.50\",\"tipo\":\"ingreso\"," \o
    "\"status\":\"pendiente\",\"created_at\":\"t1\",\"updated_at\":\"t1\"}"
ListText == "[" \o TxText \o "]"
JobText == "{\"job_id\":\"j1\"}"

\* JSON.parse on the body texts the remote store sends with a success status
parseJson(text) ==
    CASE text = "[]" -> <<>>
      [] text = ListText -> <<Tx("x1", "pendiente", "t1")>>
      [] text = TxText -> Tx("x1", "pendiente", "t1")
      [] text = JobText -> [job_id |-> "j1"]

\* what the caller of request() gets: a thrown Error with a message, or a value
Thrown(message) == [threw |-> TRUE, message |-> message, value |-> NONE]
Returned(value) == [threw |-> FALSE, message |-> NONE, value |-> value]

\* (variant) request that reports the status code only
request_statusOnly(response) ==
    IF ~response.ok
    THEN Thrown("HTTP " \o ToString(response.status))
    ELSE Returned(parseJson(response.body))

\* request() after fetch resolved: if (!response.ok) throw new Error(
\* (await response.text()) || `HTTP ${response.status}`); return response.json()
request(response) ==
    IF ~response.ok
    THEN Thrown(IF response.body = "" THEN "HTTP " \o ToString(response.status)
                ELSE response.body)
    ELSE Returned(parseJson(response.body))

\* the ways a request fails: fetch rejects with a TypeError, or the response is not ok
Failures ==
    {Thrown("Failed to fetch"),
     request(Response(FALSE, 500, "Internal Server Error")),
     request(Response(FALSE, 503, ""))}

\* api.listTransactions(limit = 50)
Limit == 50
listTransactions(rid) ==
    [rid |-> rid, kind |-> "list", key |-> 0, intent |-> 0, id |-> NONE, phase |-> "sent",
     result |-> <<>>]

\* (variant) createTransaction that keeps one Idempotency-Key per create action
createTransaction_keyPerIntent(rid, uuids, it) ==
    [rid |-> rid, kind |-> "create", key |-> it, intent |-> it, id |-> NONE,
     phase |-> "sent", result |-> <<>>]

\* api.createTransaction(data): the Idempotency-Key is crypto.randomUUID(), drawn in
\* the call; uuids is the number of UUIDs drawn before it
createTransaction(rid, uuids, it) ==
    [rid |-> rid, kind |-> "create", key |-> uuids + 1, intent |-> it, id |-> NONE,
     phase |-> "sent", result |-> <<>>]

\* api.processTransaction(id): POST /transactions/async-process?transaction_id=id
processTransaction(rid, id) ==
    [rid |-> rid, kind |-> "process", key |-> 0, intent |-> 0, id |-> id, phase |-> "sent",
     result |-> <<>>]

\* the user types an amount into the empty form: a new create action begins
FillForm(cap) ==
    /\ appMounted
    /\ monto = "" /\ ~isSubmitting
    /\ intent < cap
    /\ monto' = "100.50"
    /\ intent' = intent + 1
    /\ UNCHANGED <<hookVars, transactions, isLoading, error, selectedId, toasts,
                   isSubmitting, appMounted, netVars, fnVars>>

\* (variant) handleSubmit that does not look at isSubmitting
Submit_unguarded(cap) ==
    /\ appMounted
    /\ monto # ""
    /\ Cardinality(sentKeys) < cap
    /\ isSubmitting' = TRUE
    /\ LET r == createTransaction(nextRid + 1, nextUuid + 1, intent) IN
         /\ requests' = requests \cup {r}
         /\ sentKeys' = sentKeys \cup {<<r.rid, r.intent, r.key>>}
         /\ nextUuid' = r.key
    /\ nextRid' = nextRid + 1
    /\ UNCHANGED <<hookVars, transactions, isLoading, error, selectedId, toasts, monto,
                   intent, appMounted, remote, keyMap, returned, asked, accepted, jobs,
                   pushed, dropped, fnVars>>

\* TransactionForm.handleSubmit up to the await: guard, setIsSubmitting(true), and
\* onSubmit -> App.handleCreate -> create -> api.createTransaction -> fetch.
\* data.user_id is one crypto.randomUUID(), the key is the next one.
Submit(cap) ==
    /\ appMounted
    /\ ~(monto = "" \/ isSubmitting)
    /\ Cardinality(sentKeys) < cap
    /\ isSubmitting' = TRUE
    /\ LET r == createTransaction(nextRid + 1, nextUuid + 1, intent) IN
         /\ requests' = requests \cup {r}
         /\ sentKeys' = sentKeys \cup {<<r.rid, r.intent, r.key>>}
         /\ nextUuid' = r.key
    /\ nextRid' = nextRid + 1
    /\ UNCHANGED <<hookVars, transactions, isLoading, error, selectedId, toasts, monto,
                   intent, appMounted, remote, keyMap, returned, asked, accepted, jobs,
                   pushed, dropped, fnVars>>

\* App.selectedTransaction: transactions.find(tx => tx.id === selectedId) || null
selectedTransaction ==
    IF Falsy(selectedId) THEN <<>>
    ELSE LET found == SelectSeq(transactions, LAMBDA tx : tx.id = selectedId)
         IN IF found = <<>> THEN <<>> ELSE <<Head(found)>>

\* (variant) a Process button on every row of the list
processButtons_all == {transactions[i].id : i \in DOMAIN transactions}

\* the ids that have a Process button on screen: the rows of TransactionList whose
\* status is pendiente (the list shows "Loading transactions..." while isLoading), and
\* the selected transaction of TransactionLogs when its status is pendiente
processButtons ==
    {transactions[i].id : i \in {j \in DOMAIN transactions :
                                   ~isLoading /\ transactions[j].status = "pendiente"}}
    \cup {selectedTransaction[i].id : i \in {j \in DOMAIN selectedTransaction :
                                   selectedTransaction[j].status = "pendiente"}}

\* a click on a Process button: onProcess(tx.id) -> App.handleProcess -> process ->
\* api.processTransaction -> fetch
Process(id, cap) ==
    /\ appMounted
    /\ id \in processButtons
    /\ Cardinality(asked) < cap
    /\ LET r == processTransaction(nextRid + 1, id) IN
         /\ requests' = requests \cup {r}
         /\ asked' = asked \cup {<<r.rid, id>>}
    /\ nextRid' = nextRid + 1
    /\ UNCHANGED <<hookVars, appVars, nextUuid, remote, keyMap, sentKeys, returned, accepted,
                   jobs, pushed, dropped, fnVars>>

\* the remote store serves a request. A create whose key it has seen resolves to the
\* transaction recorded for that key; a new key creates a transaction (pendiente) at
\* the head of the list. A list returns the newest Limit transactions.
RemoteCreate(store, keys, key) ==
    IF key \in DOMAIN keys
    THEN [remote |-> store, keyMap |-> keys,
          result |-> SelectSeq(store, LAMBDA t : t.id = keys[key])]
    ELSE LET tx == Tx(TxIds[Len(store) + 1], "pendiente", "t1") IN
         [remote |-> <<tx>> \o store,
          keyMap |-> [k \in DOMAIN keys \cup {key} |-> IF k = key THEN tx.id ELSE keys[k]],
          result |-> <<tx>>]

RemoteList(store) == SubSeq(store, 1, IF Len(store) < Limit THEN Len(store) ELSE Limit)

\* an async-process request enqueues a job for the transaction and answers {job_id}
RemoteProcess(queue, rid, id) ==
    [jobs |-> Append(queue, id), result |-> <<[job_id |-> rid]>>]

Serve(r) ==
    /\ r \in requests /\ r.phase = "sent"
    /\ IF r.kind = "create"
       THEN LET out == RemoteCreate(remote, keyMap, r.key) IN
              /\ remote' = out.remote
              /\ keyMap' = out.keyMap
              /\ requests' = (requests \ {r})
                               \cup {[r EXCEPT !.phase = "served", !.result = out.result]}
              /\ UNCHANGED jobs
       ELSE IF r.kind = "process"
       THEN LET out == RemoteProcess(jobs, r.rid, r.id) IN
              /\ jobs' = out.jobs
              /\ requests' = (requests \ {r})
                               \cup {[r EXCEPT !.phase = "served", !.result = out.result]}
              /\ UNCHANGED <<remote, keyMap>>
       ELSE /\ requests' = (requests \ {r})
                             \cup {[r EXCEPT !.phase = "served", !.result = RemoteList(remote)]}
            /\ UNCHANGED <<remote, keyMap, jobs>>
    /\ UNCHANGED <<hookVars, appVars, nextRid, nextUuid, sentKeys, returned, asked, accepted,
                   pushed, dropped, fnVars>>

\* useTransactions.refresh after the await: setTransactions(data), setIsLoading(false)
refreshResolved(prev, data) == data

\* (variant) create that puts the returned transaction after the ones already held
createResolved_appends(prev, tx) == prev \o <<tx>>

\* useTransactions.create after the await: setTransactions(prev => [tx, ...prev])
createResolved(prev, tx) == <<tx>> \o prev

\* (variant) process that marks the transaction as processed when the call returns
processResolved_optimistic(prev, id) ==
    [i \in DOMAIN prev |-> IF prev[i].id = id THEN [prev[i] EXCEPT !.status = "procesado"]
                           ELSE prev[i]]

\* useTransactions.process after the await: nothing ("The status will update via
\* WebSocket"); the list is the one held before
processResolved(prev, id) == prev

\* a served request's response arrives with a success status: the awaiting code resumes
Resolve(r) ==
    /\ r \in requests /\ r.phase = "served"
    /\ requests' = requests \ {r}
    /\ IF r.kind = "list"
       THEN /\ transactions' = refreshResolved(transactions, r.result)
            /\ isLoading' = FALSE
            /\ UNCHANGED <<selectedId, monto, isSubmitting, returned, accepted>>
       ELSE IF r.kind = "process"
       THEN /\ transactions' = processResolved(transactions, r.id)
            /\ accepted' = accepted \cup {<<r.rid, r.id, r.result[1].job_id>>}
            /\ UNCHANGED <<isLoading, selectedId, monto, isSubmitting, returned>>
       ELSE \* create: prepend; App.handleCreate: setSelectedId; form: setMonto(''), finally
            /\ transactions' = createResolved(transactions, r.result[1])
            /\ selectedId' = r.result[1].id
            /\ monto' = ""
            /\ isSubmitting' = FALSE
            /\ returned' = returned \cup {<<r.rid, r.intent, r.result[1].id>>}
            /\ UNCHANGED <<isLoading, accepted>>
    /\ UNCHANGED <<hookVars, error, toasts, intent, appMounted,
                   nextRid, nextUuid, remote, keyMap, sentKeys, asked, jobs, pushed, dropped,
                   fnVars>>

\* (variant) a form whose handleSubmit resets isSubmitting on success only
Reject_keepsSubmitting(r) ==
    /\ r \in requests
    /\ requests' = requests \ {r}
    /\ IF r.kind = "list"
       THEN \* refresh: catch (e) setError(e instanceof Error ? e.message : ...), finally
            /\ \E e \in Failures : error' = e.message
            /\ isLoading' = FALSE
            /\ UNCHANGED isSubmitting
       ELSE IF r.kind = "process"
       THEN \* the error passes through process and handleProcess; nothing catches it
            UNCHANGED <<error, isLoading, isSubmitting>>
       ELSE \* the error passes through create and handleCreate; the form's finally runs
            UNCHANGED <<error, isLoading, isSubmitting>>
    /\ UNCHANGED <<hookVars, transactions, selectedId, toasts, monto, intent, appMounted,
                   nextRid, nextUuid, remote, keyMap, sentKeys, returned, asked, accepted,
                   jobs, pushed, dropped, fnVars>>

\* a request fails: fetch rejects (the request or its response is lost) or the response
\* is not ok; request() throws
Reject(r) ==
    /\ r \in requests
    /\ requests' = requests \ {r}
    /\ IF r.kind = "list"
       THEN \* refresh: catch (e) setError(e instanceof Error ? e.message : ...), finally
            /\ \E e \in Failures : error' = e.message
            /\ isLoading' = FALSE
            /\ UNCHANGED isSubmitting
       ELSE IF r.kind = "process"
       THEN \* the error passes through process and handleProcess; nothing catches it
            UNCHANGED <<error, isLoading, isSubmitting>>
       ELSE \* the error passes through create and handleCreate; the form's finally runs
            /\ isSubmitting' = FALSE
            /\ UNCHANGED <<error, isLoading>>
    /\ UNCHANGED <<hookVars, transactions, selectedId, toasts, monto, intent, appMounted,
                   nextRid, nextUuid, remote, keyMap, sentKeys, returned, asked, accepted,
                   jobs, pushed, dropped, fnVars>>

----------------------------------------------------------------------------
\* Initial states: the component has mounted and its effects have run once

\* the hook before its first effect: useState / useRef initial values
Hook0 ==
    [isMounted |-> <<>>, session |-> <<>>, sockets |-> <<>>, wsRef |-> 0,
     reconnectTimeoutRef |-> 0, pingIntervalRef |-> 0, timeouts |-> {}, intervals |-> {},
     nextTimerId |-> 1, isConnected |-> FALSE, lastMessage |-> <<>>, lastData |-> <<>>,
     attempts |-> <<>>, closes |-> <<>>, warnings |-> 0, errorLogged |-> FALSE, dispatch |-> <<>>,
     onMessageRef |-> 1, calledBack |-> <<>>,
     transactions |-> <<>>, toasts |-> 0]

Deps(ok, interval) == [urlOk |-> ok, reconnectInterval |-> interval]

InitHook(deps) ==
    LET h == startSession(Hook0, deps) IN
    /\ isMounted = h.isMounted
    /\ session = h.session
    /\ sockets = h.sockets
    /\ wsRef = h.wsRef
    /\ reconnectTimeoutRef = h.reconnectTimeoutRef
    /\ pingIntervalRef = h.pingIntervalRef
    /\ timeouts = h.timeouts
    /\ intervals = h.intervals
    /\ nextTimerId = h.nextTimerId
    /\ isConnected = h.isConnected
    /\ lastMessage = h.lastMessage
    /\ lastData = h.lastData
    /\ attempts = h.attempts
    /\ closes = h.closes
    /\ warnings = h.warnings
    /\ errorLogged = h.errorLogged
    /\ dispatch = h.dispatch
    /\ onMessageRef = h.onMessageRef
    /\ calledBack = h.calledBack
    /\ transactions = h.transactions
    /\ toasts = h.toasts

\* useTransactions, App and the form after mount; refresh() is already awaiting
InitApp ==
    /\ isLoading = TRUE
    /\ error = NONE
    /\ selectedId = NONE
    /\ monto = ""
    /\ isSubmitting = FALSE
    /\ intent = 0
    /\ appMounted = TRUE

InitNetJobs(store, queue) ==
    /\ requests = {listTransactions(1)}
    /\ nextRid = 1
    /\ nextUuid = 0
    /\ remote = store
    /\ keyMap = <<>>
    /\ sentKeys = {}
    /\ returned = {}
    /\ asked = {}
    /\ accepted = {}
    /\ jobs = queue
    /\ pushed = <<>>
    /\ dropped = {}

InitNet(store) == InitNetJobs(store, <<>>)

InitFnIdle ==
    /\ fnPrev = <<>>
    /\ fnMessage = Message(NONE, NONE, NONE, NONE, NONE)
    /\ fnOnce = <<>>
    /\ fnTwice = <<>>
    /\ fnPc = "idle"
    /\ fnStore = <<>>
    /\ fnLog = <<>>
    /\ reqIn = [path |-> "/transactions?limit=50", response |-> Response(TRUE, 200, "[]")]
    /\ reqOut = <<>>

----------------------------------------------------------------------------
\* Spec: the App (App.tsx) - one useWebSocket on a constant, valid url with the
\* default reconnectInterval, useTransactions, the form, and the remote store

InitialStores == {<<>>, <<Tx("x1", "pendiente", "t1")>>}

\* frames the peer delivers to the App while it creates transactions
AppFrames ==
    {Pong,
     Json(Message(StatusChanged, "x1", "procesado", "t2", NONE))}

Init ==
    /\ InitHook(Deps(TRUE, DefaultReconnectInterval))
    /\ InitApp
    /\ \E store \in InitialStores : InitNet(store)
    /\ InitFnIdle

Next ==
    \/ \E k \in DOMAIN sockets : OnOpen(k, MaxAppAttempts)
    \/ \E k \in DOMAIN sockets : OnClose(k, MaxAppAttempts)
    \/ \E t \in timeouts : ReconnectTimer(t, MaxAppAttempts)
    \/ \E k \in DOMAIN sockets, data \in AppFrames : OnMessage(k, data, MaxAppFrames)
    \/ Unmount
    \/ FillForm(MaxIntents)
    \/ Submit(MaxCreates)
    \/ \E r \in requests : Serve(r)
    \/ \E r \in requests : Resolve(r)
    \/ \E r \in requests : Reject(r)

Spec == Init /\ [][Next]_vars

----------------------------------------------------------------------------
\* SpecRouter: the App's connection and its message routing into the store, which the
\* initial full fetch populates

\* frames the peer (or noise on the channel) may deliver
Frames ==
    {Pong, Malformed,
     Json(Message("keepalive", NONE, NONE, NONE, "keepalive")),
     Json(Message(StatusChanged, "x1", "fallido", "t2", "keepalive")),
     Json(Message("transaction.created", "x1", NONE, "t2", NONE)),
     Json(Message(StatusChanged, "x1", "procesado", "t2", NONE)),
     Json(Message(StatusChanged, "x1", "pendiente", "t1", NONE)),
     Json(Message(StatusChanged, "x2", "fallido", NONE, NONE)),
     Json(Message(StatusChanged, NumberId, "procesado", "t2", NONE))}

NextRouter ==
    \/ \E k \in DOMAIN sockets : OnOpen(k, MaxAppAttempts)
    \/ \E k \in DOMAIN sockets : OnError(k, MaxAppAttempts)
    \/ \E k \in DOMAIN sockets : OnClose(k, MaxAppAttempts)
    \/ \E t \in timeouts : ReconnectTimer(t, MaxAppAttempts)
    \/ \E k \in DOMAIN sockets, data \in Frames : OnMessage(k, data, MaxFrames)
    \/ Unmount
    \/ \E r \in requests : Serve(r)
    \/ \E r \in requests : Resolve(r)
    \/ \E r \in requests : Reject(r)

SpecRouter == Init /\ [][NextRouter]_vars

----------------------------------------------------------------------------
\* SpecConn: the hook alone, for any url and any change of its deps

ReconnectIntervals == {DefaultReconnectInterval, 1000}

InitConn ==
    /\ \E ok \in BOOLEAN : InitHook(Deps(ok, DefaultReconnectInterval))
    /\ InitApp
    /\ InitNet(<<>>)
    /\ InitFnIdle

NextConn ==
    \/ \E k \in DOMAIN sockets : OnOpen(k, MaxAttempts)
    \/ \E k \in DOMAIN sockets : OnError(k, MaxAttempts)
    \/ \E k \in DOMAIN sockets : OnClose(k, MaxAttempts)
    \/ \E t \in timeouts : ReconnectTimer(t, MaxAttempts)
    \/ \E i \in intervals : PingTimer(i, MaxPings)
    \/ \E ok \in BOOLEAN, d \in ReconnectIntervals :
          ChangeDeps(Deps(ok, d), MaxAttempts, MaxSessions)
    \/ Unmount

SpecConn == InitConn /\ [][NextConn]_vars

\* timers the browser has armed do fire
SpecConnLive ==
    SpecConn /\ WF_vars(\E t \in timeouts : ReconnectTimer(t, MaxAttempts))

----------------------------------------------------------------------------
\* SpecProc: the App with its Process buttons, and a remote store whose worker runs the
\* processing jobs and broadcasts each status change over the push channel

\* the status a job ends in (a job that fails is announced the same way, as fallido)
JobOutcomes == {"procesado"}

\* the sockets the remote store sees as connected, in creation order
OpenSockets ==
    SelectSeq([k \in DOMAIN sockets |-> k], LAMBDA k : sockets[k].readyState = "OPEN")

\* the worker runs the next job: a transaction that is still pendiente gets the job's
\* outcome, and the change is broadcast to every connected client as a status_changed
\* event; a job for a transaction that is no longer pendiente does nothing
RemoteJob(st) ==
    /\ jobs # <<>>
    /\ jobs' = Tail(jobs)
    /\ LET id == Head(jobs)
           pending == \E i \in DOMAIN remote : remote[i].id = id /\ remote[i].status = "pendiente"
           ev == Json(WithOld(Message(StatusChanged, id, st, "t2", NONE), "pendiente"))
       IN IF pending
          THEN /\ remote' = [i \in DOMAIN remote |->
                               IF remote[i].id = id THEN Tx(id, st, "t2") ELSE remote[i]]
               /\ pushed' = pushed \o [i \in DOMAIN OpenSockets |->
                                          [socket |-> OpenSockets[i], data |-> ev]]
          ELSE UNCHANGED <<remote, pushed>>
    /\ UNCHANGED <<hookVars, appVars, requests, nextRid, nextUuid, keyMap, sentKeys, returned,
                   asked, accepted, dropped, fnVars>>

\* the oldest broadcast event reaches its socket: a message event, handled by ws.onmessage
Deliver ==
    /\ pushed # <<>>
    /\ LET k == Head(pushed).socket
           data == Head(pushed).data
           h == onmessage([Hook EXCEPT !.sockets[k].received = @ + 1,
                                       !.lastData = <<data>>,
                                       !.dispatch = <<>>,
                                       !.calledBack = <<>>], k, data)
           unknown == /\ \E i \in DOMAIN h.dispatch : h.dispatch[i].to = "store"
                      /\ data.msg.event = StatusChanged
                      /\ \A i \in DOMAIN transactions :
                            transactions[i].id # data.msg.transaction_id
       IN /\ \/ sockets[k].readyState = "OPEN"
             \/ sockets[k].readyState = "CLOSING" /\ sockets[k].wasOpen
          /\ SetHook(h)
          /\ dropped' = IF unknown THEN dropped \cup {data.msg} ELSE dropped
    /\ pushed' = Tail(pushed)
    /\ UNCHANGED <<isLoading, error, selectedId, monto, isSubmitting, intent, appMounted,
                   requests, nextRid, nextUuid, remote, keyMap, sentKeys, returned, asked,
                   accepted, jobs, fnVars>>

\* the remote store when the App mounts: empty, or holding x1 - created and sent to
\* processing before this page was loaded - with its job still queued
InitProc ==
    /\ InitHook(Deps(TRUE, DefaultReconnectInterval))
    /\ InitApp
    /\ \/ InitNetJobs(<<>>, <<>>)
       \/ InitNetJobs(<<Tx("x1", "pendiente", "t1")>>, <<"x1">>)
    /\ InitFnIdle

NextProc ==
    \/ \E k \in DOMAIN sockets : OnOpen(k, MaxAppAttempts)
    \/ FillForm(MaxProcCreates)
    \/ Submit(MaxProcCreates)
    \/ \E id \in processButtons : Process(id, MaxProcess)
    \/ \E r \in requests : Serve(r)
    \/ \E r \in requests : Resolve(r)
    \/ \E r \in requests : Reject(r)
    \/ \E st \in JobOutcomes : RemoteJob(st)
    \/ Deliver

SpecProc == InitProc /\ [][NextProc]_vars

----------------------------------------------------------------------------
\* SpecClicks: the App showing one pending transaction, whose Process button the user
\* may click more than once

InitClicks ==
    /\ InitHook(Deps(TRUE, DefaultReconnectInterval))
    /\ InitApp
    /\ InitNetJobs(<<Tx("x1", "pendiente", "t1")>>, <<>>)
    /\ InitFnIdle

NextClicks ==
    \/ \E k \in DOMAIN sockets : OnOpen(k, MaxAppAttempts)
    \/ \E id \in processButtons : Process(id, MaxClicks)
    \/ \E r \in requests : Serve(r)
    \/ \E r \in requests : Resolve(r)
    \/ \E r \in requests : Reject(r)
    \/ \E st \in JobOutcomes : RemoteJob(st)
    \/ Deliver

SpecClicks == InitClicks /\ [][NextClicks]_vars

----------------------------------------------------------------------------
\* SpecReq: one call of the api client's request(), for every path and response

Paths ==
    {"/transactions?limit=50", "/transactions/create",
     "/transactions/async-process?transaction_id=x1"}

OkStatuses == {200, 201}
ErrorStatuses == {400, 404, 409, 422, 500, 502, 503}

SuccessBodies == {"[]", ListText, TxText, JobText}

ErrorBodies ==
    {"", "Not Found", "Internal Server Error", "{\"detail\":\"Transaction not found\"}"}

Responses ==
    {Response(TRUE, st, b) : st \in OkStatuses, b \in SuccessBodies}
    \cup {Response(FALSE, st, b) : st \in ErrorStatuses, b \in ErrorBodies}

InitReq ==
    /\ InitHook(Deps(TRUE, DefaultReconnectInterval))
    /\ InitApp
    /\ InitNet(<<>>)
    /\ fnPrev = <<>>
    /\ fnMessage = Message(NONE, NONE, NONE, NONE, NONE)
    /\ fnOnce = <<>>
    /\ fnTwice = <<>>
    /\ fnPc = "request"
    /\ fnStore = <<>>
    /\ fnLog = <<>>
    /\ reqIn \in [path : Paths, response : Responses]
    /\ reqOut = <<>>

\* fetch has resolved with reqIn.response: the rest of request() runs
Request ==
    /\ fnPc = "request"
    /\ reqOut = <<>>
    /\ reqOut' = <<request(reqIn.response)>>
    /\ UNCHANGED <<hookVars, appVars, netVars, fnPrev, fnMessage, fnOnce, fnTwice, fnPc,
                   fnStore, fnLog, reqIn>>

NextReq == Request

SpecReq == InitReq /\ [][NextReq]_vars

----------------------------------------------------------------------------
\* Claims about the connection lifecycle (SpecConn, SpecConnLive)

Sessions == DOMAIN isMounted
SocketsOf(s) == {k \in DOMAIN sockets : sockets[k].session = s}
ActiveSocketsOf(s) == {k \in SocketsOf(s) : sockets[k].readyState \in {"CONNECTING", "OPEN"}}
TimeoutsOf(s) == {t \in timeouts : t.session = s}

\* C1: within one session, at most one of its sockets is CONNECTING or OPEN in every
\* reachable state; a socket is constructed for a session only when the session starts
\* or when its pending reconnect timeout fires, and a reconnect timeout is armed only by
\* a step that handles a close event of the session or whose constructor threw
C1_OneActiveConnection ==
    /\ [](\A s \in Sessions : Cardinality(ActiveSocketsOf(s)) <= 1)
    /\ [][\A s \in DOMAIN isMounted' :
            /\ {k \in DOMAIN sockets' : sockets'[k].session = s} # SocketsOf(s)
                  => \/ s \notin Sessions
                     \/ \E t \in TimeoutsOf(s) : t \notin timeouts'
            /\ (\E t \in timeouts' : t.session = s /\ t \notin timeouts)
                  => \/ s \in Sessions /\ closes'[s] = closes[s] + 1
                     \/ ~session'[s].urlOk]_vars

\* C1 witness: a session that reconnected - its first socket is closed, its second open
C1_Witness ==
    \E s \in Sessions : \E k1, k2 \in SocketsOf(s) :
        /\ k1 < k2
        /\ sockets[k1].readyState = "CLOSED"
        /\ sockets[k2].readyState = "OPEN"

\* session s is live and has a reconnect timeout pending that a close handler armed
\* (sockets, and so close events, exist only in a session whose url the constructor
\* accepts)
ReconnectPending(s) ==
    IF s \in Sessions
    THEN isMounted[s] /\ session[s].urlOk /\ TimeoutsOf(s) # {}
    ELSE FALSE

\* session s has been disposed, or has a socket that is connecting or open
DisposedOrConnecting(s) ==
    IF s \in Sessions THEN ~isMounted[s] \/ ActiveSocketsOf(s) # {} ELSE FALSE

\* session s has been disposed, or has made one attempt more than it has seen closes
DisposedOrAttempted(s) ==
    IF s \in Sessions THEN ~isMounted[s] \/ attempts[s] = closes[s] + 1 ELSE FALSE

\* a step in which the close event of a socket of the undisposed session s is handled
CloseHandled(s) == isMounted[s] /\ closes'[s] = closes[s] + 1

\* C2: whenever a close event is handled for an undisposed session, after the handler
\* no keepalive interval of the session is active, isConnected is false and exactly one
\* reconnect timeout, with the session's fixed delay, is pending; and (the timer being
\* fired by the browser) a pending reconnect leads to a new socket of the session
\* connecting unless the session is disposed first
C2_CloseSchedulesReconnect ==
    /\ [][\A s \in Sessions :
            CloseHandled(s) =>
              /\ {i \in intervals' : sockets'[i.socket].session = s} = {}
              /\ isConnected' = FALSE
              /\ Cardinality({t \in timeouts' : t.session = s}) = 1
              /\ \A t \in timeouts' : t.session = s =>
                    /\ t \notin timeouts
                    /\ t.delay = session[s].reconnectInterval]_vars
    /\ \A s \in 1..MaxSessions : ReconnectPending(s) ~> DisposedOrConnecting(s)

\* C2 witness: an open connection with a running keepalive was closed and the session
\* reconnected
C2_Witness ==
    \E s \in Sessions :
        /\ isMounted[s] /\ closes[s] >= 1 /\ attempts[s] = closes[s] + 1
        /\ \E k \in SocketsOf(s) : sockets[k].readyState = "CLOSED" /\ sockets[k].pings > 0

\* C3: once a session is disposed, no step constructs a socket for it, makes a
\* connection attempt for it or arms a reconnect timeout for it, and none is pending
C3_NoReconnectAfterDispose ==
    /\ [][\A s \in Sessions :
            ~isMounted[s] =>
              /\ {k \in DOMAIN sockets' : sockets'[k].session = s} = SocketsOf(s)
              /\ attempts'[s] = attempts[s]
              /\ {t \in timeouts' : t.session = s} = {}]_vars
    /\ [](\A s \in Sessions : ~isMounted[s] => TimeoutsOf(s) = {})

\* C3 witness: a disposed session whose socket's close event was handled after the
\* cleanup (no reconnect timeout was ever armed by this hook)
C3_Witness ==
    /\ ~isMounted[1]
    /\ sockets # <<>> /\ sockets[1].readyState = "CLOSED"
    /\ reconnectTimeoutRef = 0

\* C4: for a session whose url the constructor accepts, after N handled closes and no
\* dispose the session has made N+1 connection attempts once the reconnect timer has
\* fired (N while it is still pending), every reconnect timeout carries the session's
\* one fixed delay, and (the timer being fired) while a reconnect is pending attempt
\* N+1 is eventually made unless the session is disposed
C4_ReconnectPersistence ==
    /\ [](\A s \in Sessions :
            /\ (isMounted[s] /\ session[s].urlOk) =>
                  /\ Cardinality(TimeoutsOf(s)) <= 1
                  /\ attempts[s] = closes[s] + 1 - Cardinality(TimeoutsOf(s))
            /\ \A t \in TimeoutsOf(s) : t.delay = session[s].reconnectInterval)
    /\ \A s \in 1..MaxSessions : ReconnectPending(s) ~> DisposedOrAttempted(s)

\* C4 witness: two forced closes in a row, three attempts
C4_Witness ==
    \E s \in Sessions : isMounted[s] /\ closes[s] = 2 /\ attempts[s] = 3

----------------------------------------------------------------------------
\* Claims about teardown (SpecRouter, Spec)

\* C5: a frame delivered on a socket whose session has been disposed is not dispatched
\* to a subscriber (the store's handler, the toast handler) and changes neither
\* lastMessage nor the transaction list
C5_NoFrameEffectAfterDispose ==
    [][\A k \in DOMAIN sockets :
          (sockets'[k].received = sockets[k].received + 1 /\ ~isMounted[sockets[k].session])
             => /\ lastMessage' = lastMessage
                /\ transactions' = transactions
                /\ toasts' = toasts]_vars

\* C5 witness: a status_changed event for x1 was applied to the store while the session
\* was live (x1 is procesado/t2, one toast); the latest frame, another status_changed
\* event for x1, came after dispose and was not dispatched
C5_Witness ==
    /\ ~isMounted[1]
    /\ lastData = <<Json(Message(StatusChanged, "x1", "pendiente", "t1", NONE))>>
    /\ lastMessage = <<Message(StatusChanged, "x1", "procesado", "t2", NONE)>>
    /\ transactions = <<Tx("x1", "procesado", "t2")>>
    /\ toasts = 1

\* C6: after the App is torn down, the transaction list is not written (the result of a
\* refresh or create that was in flight is discarded)
C6_NoStoreWriteAfterTeardown ==
    [][~appMounted => transactions' = transactions]_vars

\* C7: every create request of one create action carries the same Idempotency-Key
C7_OneKeyPerIntent ==
    \A a, b \in sentKeys : a[2] = b[2] => a[3] = b[3]

\* C8: one create action results in one Transaction in the remote store, and every
\* attempt of it that returns describes the same id
C8_OneTransactionPerIntent ==
    /\ \A a, b \in sentKeys :
          (a[2] = b[2] /\ a[3] \in DOMAIN keyMap /\ b[3] \in DOMAIN keyMap)
             => keyMap[a[3]] = keyMap[b[3]]
    /\ \A a, b \in returned : a[2] = b[2] => a[3] = b[3]

----------------------------------------------------------------------------
\* SpecFn: the reconciliation function on every small store and message

FnTxs == {Tx(id, st, "t1") : id \in {"x1", "x2"}, st \in TransactionStatus}

RECURSIVE SeqsUpTo(_, _)
SeqsUpTo(S, n) ==
    IF n = 0 THEN {<<>>}
    ELSE LET shorter == SeqsUpTo(S, n - 1) IN
         shorter \cup {Append(q, x) : q \in {r \in shorter : Len(r) = n - 1}, x \in S}

FnMessages ==
    {Message(ev, id, st, ts, NONE) :
        ev \in {StatusChanged, "transaction.created"},
        id \in {NONE, "", "x1", "x3"},
        st \in {NONE, ""} \cup TransactionStatus,
        ts \in {NONE, "", "t2"}}
    \cup {WithOld(Message(StatusChanged, "x1", st, "t2", NONE), old) :
             st \in TransactionStatus, old \in TransactionStatus}
    \cup {Message(ev, "x1", "procesado", "t2", NONE) :
             ev \in {"transaction.enqueued", "worker.processing_started", "unknown.tag"}}

InitFn ==
    /\ InitHook(Deps(TRUE, DefaultReconnectInterval))
    /\ InitApp
    /\ InitNet(<<>>)
    /\ fnPrev \in SeqsUpTo(FnTxs, MaxStore)
    /\ fnMessage \in FnMessages
    /\ fnOnce = <<>>
    /\ fnTwice = <<>>
    /\ fnPc = "input"
    /\ fnStore = <<>>
    /\ fnLog = <<>>
    /\ reqIn = [path |-> "/transactions?limit=50", response |-> Response(TRUE, 200, "[]")]
    /\ reqOut = <<>>

\* setTransactions(prev => ...) with the updater of handleWSMessage(fnMessage)
ApplyOnce ==
    /\ fnPc = "input"
    /\ fnOnce' = handleWSMessage(fnPrev, fnMessage)
    /\ fnPc' = "once"
    /\ UNCHANGED <<hookVars, appVars, netVars, fnPrev, fnMessage, fnTwice, fnStore, fnLog, reqIn, reqOut>>

\* the same message handled a second time
ApplyTwice ==
    /\ fnPc = "once"
    /\ fnTwice' = handleWSMessage(fnOnce, fnMessage)
    /\ fnPc' = "twice"
    /\ UNCHANGED <<hookVars, appVars, netVars, fnPrev, fnMessage, fnOnce, fnStore, fnLog, reqIn, reqOut>>

NextFn == ApplyOnce \/ ApplyTwice

SpecFn == InitFn /\ [][NextFn]_vars

Applied == fnPc \in {"once", "twice"}
FnIds == {fnPrev[i].id : i \in DOMAIN fnPrev}
IsStatusChanged == fnMessage.event = StatusChanged

\* C9 as stated: a status_changed event whose id is held locally replaces the status by
\* the event's new_status and updated_at by the event's timestamp
C9_ReplacesStatusAndTimestamp ==
    (Applied /\ IsStatusChanged /\ fnMessage.transaction_id \in FnIds) =>
        /\ Len(fnOnce) = Len(fnPrev)
        /\ \A i \in DOMAIN fnPrev :
              fnPrev[i].id = fnMessage.transaction_id =>
                 /\ fnOnce[i].status = fnMessage.new_status
                 /\ fnOnce[i].updated_at = fnMessage.timestamp

\* C9 amended: a status_changed event whose id is held locally and which carries a
\* new_status replaces the status by it, and replaces updated_at by the event's
\* timestamp when it carries one (updated_at is kept otherwise); an event without a
\* new_status changes nothing
C9_ReplacesWhenCarried ==
    (Applied /\ IsStatusChanged /\ fnMessage.transaction_id \in FnIds) =>
        /\ Len(fnOnce) = Len(fnPrev)
        /\ Falsy(fnMessage.new_status) => fnOnce = fnPrev
        /\ ~Falsy(fnMessage.new_status) =>
              \A i \in DOMAIN fnPrev :
                 fnPrev[i].id = fnMessage.transaction_id =>
                    /\ fnOnce[i].status = fnMessage.new_status
                    /\ fnOnce[i].updated_at =
                          IF Falsy(fnMessage.timestamp) THEN fnPrev[i].updated_at
                          ELSE fnMessage.timestamp

\* C9 witness: x1 is held as pendiente/t1 and the event makes it procesado at t2
C9_Witness ==
    /\ Applied
    /\ fnPrev = <<Tx("x2", "pendiente", "t1"), Tx("x1", "pendiente", "t1")>>
    /\ fnMessage = Message(StatusChanged, "x1", "procesado", "t2", NONE)
    /\ fnOnce = <<Tx("x2", "pendiente", "t1"), Tx("x1", "procesado", "t2")>>

\* C10: a status_changed event whose id is not held locally leaves the list as it was:
\* same length, same records
C10_UnknownIdSafety ==
    (Applied /\ IsStatusChanged /\ fnMessage.transaction_id \notin FnIds) =>
        fnOnce = fnPrev

\* C10 witness: a complete status_changed event for x3 met a store holding x1 and x2
C10_Witness ==
    /\ Applied
    /\ fnMessage = Message(StatusChanged, "x3", "procesado", "t2", NONE)
    /\ Len(fnPrev) = 2 /\ FnIds = {"x1", "x2"}
    /\ fnOnce = fnPrev

\* C12: handling the same status_changed event a second time, right after the first,
\* leaves the list exactly as the first handling left it
C12_ReconciliationIdempotent ==
    (fnPc = "twice" /\ IsStatusChanged) => fnTwice = fnOnce

\* C12 witness: the event changed x1 the first time (pendiente/t1 to procesado/t2) and
\* was handled again
C12_Witness ==
    /\ fnPc = "twice"
    /\ fnMessage = Message(StatusChanged, "x1", "procesado", "t2", NONE)
    /\ fnPrev = <<Tx("x1", "pendiente", "t1"), Tx("x2", "fallido", "t1")>>
    /\ fnOnce = <<Tx("x1", "procesado", "t2"), Tx("x2", "fallido", "t1")>>
    /\ fnTwice = fnOnce

----------------------------------------------------------------------------
\* SpecSeq: a sequence of status_changed events handled one after the other, each by
\* setTransactions(prev => ...) on the list the one before it left

MaxEvents == 2       \* events handled in a row

SeqTxs == {Tx(id, "pendiente", "t1") : id \in {"x1", "x2"}}

\* status_changed events, with and without the optional fields; t0 is a timestamp
\* older than the one the list holds, t2 a newer one
SeqEvents ==
    {Message(StatusChanged, id, st, ts, NONE) :
        id \in {"x1", "x2"},
        st \in {NONE, "pendiente", "procesado"},
        ts \in {NONE, "t0", "t2"}}

InitSeq ==
    /\ InitHook(Deps(TRUE, DefaultReconnectInterval))
    /\ InitApp
    /\ InitNet(<<>>)
    /\ fnPrev \in SeqsUpTo(SeqTxs, MaxStore)
    /\ fnMessage = Message(NONE, NONE, NONE, NONE, NONE)
    /\ fnOnce = <<>>
    /\ fnTwice = <<>>
    /\ fnPc = "seq"
    /\ fnStore = fnPrev
    /\ fnLog = <<>>
    /\ reqIn = [path |-> "/transactions?limit=50", response |-> Response(TRUE, 200, "[]")]
    /\ reqOut = <<>>

\* the next event of the connection is handled
ApplyEvent(m) ==
    /\ fnPc = "seq"
    /\ Len(fnLog) < MaxEvents
    /\ fnStore' = handleWSMessage(fnStore, m)
    /\ fnLog' = Append(fnLog, m)
    /\ UNCHANGED <<hookVars, appVars, netVars, fnPrev, fnMessage, fnOnce, fnTwice, fnPc, reqIn, reqOut>>

NextSeq == \E m \in SeqEvents : ApplyEvent(m)

SpecSeq == InitSeq /\ [][NextSeq]_vars

\* the events handled so far for transaction id, in receipt order
EventsFor(id) == SelectSeq(fnLog, LAMBDA m : m.event = StatusChanged /\ m.transaction_id = id)
\* those of them that carry a new_status
StatusEventsFor(id) == SelectSeq(EventsFor(id), LAMBDA m : ~Falsy(m.new_status))

\* C11 as stated: after any sequence of status_changed events, a transaction held
\* locally has the new_status of the last event received for it
C11_LastEventWins ==
    fnPc = "seq" =>
        \A i \in DOMAIN fnStore :
            LET evs == EventsFor(fnStore[i].id) IN
            evs # <<>> => fnStore[i].status = evs[Len(evs)].new_status

\* C11 amended: after any sequence of status_changed events, a transaction held locally
\* has the new_status of the last event received for it that carries a new_status,
\* whatever the timestamps of the events and of the record (its initial status if no
\* event carried one); the list keeps its length and its ids
C11_LastCarriedStatusWins ==
    fnPc = "seq" =>
        /\ Len(fnStore) = Len(fnPrev)
        /\ \A i \in DOMAIN fnStore :
              LET evs == StatusEventsFor(fnStore[i].id) IN
              /\ fnStore[i].id = fnPrev[i].id
              /\ fnStore[i].status = IF evs = <<>> THEN fnPrev[i].status
                                     ELSE evs[Len(evs)].new_status

\* C11 witness: x1 was made procesado at t2, then an event with the older timestamp t0
\* arrived and made it pendiente again
C11_Witness ==
    /\ fnPc = "seq"
    /\ fnPrev = <<Tx("x1", "pendiente", "t1")>>
    /\ fnLog = <<Message(StatusChanged, "x1", "procesado", "t2", NONE),
                 Message(StatusChanged, "x1", "pendiente", "t0", NONE)>>
    /\ fnStore = <<Tx("x1", "pendiente", "t0")>>

----------------------------------------------------------------------------
\* Claims about the transaction list under requests and events (Spec)

\* C13: a transaction id that is in the local list is in the list after every step
C13_NeverDeleted ==
    [][\A i \in DOMAIN transactions :
          \E j \in DOMAIN transactions' : transactions'[j].id = transactions[i].id]_vars

\* C14: when a create call resolves, the Transaction the remote store returned is put
\* at the head of the list and the records held before follow it, unchanged and in
\* their order
C14_CreatePrepends ==
    [][returned' # returned =>
          /\ Tail(transactions') = transactions
          /\ \E r \in returned' \ returned : transactions'[1].id = r[3]
          /\ \E i \in DOMAIN remote : remote[i] = transactions'[1]]_vars

\* C14 witness: two creates resolved while the initial fetch is still in flight; the
\* list holds the second transaction, then the first
C14_Witness ==
    /\ \E r \in requests : r.kind = "list"
    /\ transactions = <<Tx("x2", "pendiente", "t1"), Tx("x1", "pendiente", "t1")>>
    /\ selectedId = "x2"

----------------------------------------------------------------------------
\* Claims about the keepalive, dispose and transport faults (SpecConn)

IntervalsOf(k) == {i \in intervals : i.socket = k}

\* C15: a socket that is OPEN in a live session has exactly one keepalive interval, of
\* the fixed period; every liveness frame is sent by a tick of it, one frame per tick,
\* on the interval's own socket while that socket is OPEN; and no liveness frame is
\* sent on a socket of a disposed session
C15_KeepaliveCadence ==
    /\ [](\A k \in DOMAIN sockets :
            (sockets[k].readyState = "OPEN" /\ isMounted[sockets[k].session]) =>
               /\ Cardinality(IntervalsOf(k)) = 1
               /\ \A i \in IntervalsOf(k) : i.every = PingInterval)
    /\ [][\A k \in DOMAIN sockets :
            /\ sockets'[k].pings # sockets[k].pings =>
                  /\ sockets'[k].pings = sockets[k].pings + 1
                  /\ sockets[k].readyState = "OPEN"
                  /\ IntervalsOf(k) # {}
                  /\ \A j \in DOMAIN sockets \ {k} : sockets'[j].pings = sockets[j].pings
            /\ ~isMounted[sockets[k].session] => sockets'[k].pings = sockets[k].pings]_vars

\* C15 witness: the socket of a disposed session had sent one liveness frame, and the
\* open socket of the live session has sent one
C15_Witness ==
    \E k1, k2 \in DOMAIN sockets :
        /\ ~isMounted[sockets[k1].session] /\ sockets[k1].pings = 1
        /\ isMounted[sockets[k2].session] /\ sockets[k2].readyState = "OPEN"
        /\ sockets[k2].pings = 1

\* C16: the step that disposes a session leaves it with no socket CONNECTING or OPEN,
\* no pending reconnect timeout and no active keepalive interval, and a disposed
\* session stays so
C16_DisposeStopsEverything ==
    /\ [][\A s \in Sessions :
            (isMounted[s] /\ ~isMounted'[s]) =>
               /\ \A k \in SocketsOf(s) : sockets'[k].readyState \in {"CLOSING", "CLOSED"}
               /\ {t \in timeouts' : t.session = s} = {}
               /\ {i \in intervals' : sockets'[i.socket].session = s} = {}]_vars
    /\ [](\A s \in Sessions :
            ~isMounted[s] =>
               /\ ActiveSocketsOf(s) = {}
               /\ TimeoutsOf(s) = {}
               /\ {i \in intervals : sockets[i.socket].session = s} = {})

\* C16 witness: the first session was disposed while its socket was open and sending
\* liveness frames, the second while it waited to reconnect after a close
C16_Witness ==
    /\ Len(isMounted) = 2 /\ ~isMounted[1] /\ ~isMounted[2]
    /\ sockets # <<>> /\ sockets[1].session = 1
    /\ closes[1] = 0 /\ sockets[1].wasOpen /\ sockets[1].pings >= 1
    /\ session[2].urlOk /\ closes[2] = 1 /\ attempts[2] = 1

\* C17: the step in which a socket of a live session fails (error event, then close
\* event) leaves the session with no keepalive interval and exactly one new reconnect
\* timeout of the session's fixed delay; so does a connection attempt whose constructor
\* throws; and a live session always has a socket CONNECTING or OPEN or a reconnect
\* timeout pending
C17_FaultSchedulesReconnect ==
    /\ [][\A k \in DOMAIN sockets :
            LET s == sockets[k].session IN
            (/\ sockets[k].readyState # "CLOSED" /\ sockets'[k].readyState = "CLOSED"
             /\ errorLogged' /\ isMounted[s]) =>
               /\ {i \in intervals' : sockets'[i.socket].session = s} = {}
               /\ isConnected' = FALSE
               /\ Cardinality({t \in timeouts' : t.session = s}) = 1
               /\ \A t \in timeouts' : t.session = s =>
                     t \notin timeouts /\ t.delay = session[s].reconnectInterval]_vars
    /\ [][\A s \in DOMAIN isMounted' :
            (/\ ~session'[s].urlOk
             /\ attempts'[s] > (IF s \in Sessions THEN attempts[s] ELSE 0)) =>
               /\ {i \in intervals' : sockets'[i.socket].session = s} = {}
               /\ Cardinality({t \in timeouts' : t.session = s}) = 1
               /\ \A t \in timeouts' : t.session = s =>
                     t \notin timeouts /\ t.delay = session'[s].reconnectInterval]_vars
    /\ [](\A s \in Sessions :
            isMounted[s] => ActiveSocketsOf(s) # {} \/ TimeoutsOf(s) # {})

\* C17 witness: the only session's open socket, which had sent a liveness frame, failed
\* with an error; its close is the only one so far, no interval is left and the
\* reconnect is pending
C17_Witness ==
    /\ Len(isMounted) = 1 /\ isMounted[1]
    /\ errorLogged /\ closes[1] = 1
    /\ sockets # <<>>
    /\ sockets[1].readyState = "CLOSED" /\ sockets[1].pings >= 1
    /\ intervals = {} /\ TimeoutsOf(1) # {}

----------------------------------------------------------------------------
\* Claims about the classification of frames (SpecRouter)

\* a step in which the message event of socket k with event.data = data is handled
FrameDelivered(k, data) ==
    sockets'[k].received = sockets[k].received + 1 /\ lastData' = <<data>>

\* the connection, its timers and the connected flag are as they were
ConnectionUntouched ==
    /\ [k \in DOMAIN sockets |-> sockets'[k].readyState]
          = [k \in DOMAIN sockets |-> sockets[k].readyState]
    /\ Len(sockets') = Len(sockets)
    /\ intervals' = intervals
    /\ timeouts' = timeouts
    /\ isConnected' = isConnected
    /\ isMounted' = isMounted

\* nothing reached a subscriber: lastMessage, the list and the toasts are as they were
NothingDispatched ==
    /\ lastMessage' = lastMessage
    /\ transactions' = transactions
    /\ toasts' = toasts

\* C18: a frame that is not JSON (and not the literal 'pong') reaches no subscriber,
\* leaves lastMessage and the list unchanged, leaves the socket, the keepalive interval
\* and the connected flag as they were, arms no reconnect, and in a live session is
\* reported by one console.warn
C18_MalformedIsSoft ==
    [][\A k \in DOMAIN sockets :
          FrameDelivered(k, Malformed) =>
             /\ NothingDispatched
             /\ ConnectionUntouched
             /\ isMounted[sockets[k].session] => warnings' = warnings + 1]_vars

\* C18 witness: after an event was dispatched, a malformed frame arrived on the open
\* socket of the live session; one warning, the connection and its keepalive still up
C18_Witness ==
    /\ lastData = <<Malformed>> /\ warnings = 1
    /\ isMounted[1] /\ isConnected /\ timeouts = {}
    /\ \E i \in intervals : sockets[i.socket].readyState = "OPEN"
    /\ lastMessage = <<Message(StatusChanged, "x1", "procesado", "t2", NONE)>>
    /\ toasts = 1

\* C19: a JSON frame whose type is 'keepalive' reaches no subscriber and leaves
\* lastMessage and the list unchanged, whatever else it carries
C19_KeepaliveDropped ==
    [][\A k \in DOMAIN sockets : \A data \in Frames :
          (data.kind = "json" /\ data.msg.type = "keepalive" /\ FrameDelivered(k, data)) =>
             /\ NothingDispatched
             /\ ConnectionUntouched
             /\ warnings' = warnings]_vars

\* C19 witness: x1 is held and was made procesado by an event; then a frame tagged
\* keepalive that carries a status change of x1 arrived and changed nothing
C19_Witness ==
    /\ lastData = <<Json(Message(StatusChanged, "x1", "fallido", "t2", "keepalive"))>>
    /\ isMounted[1]
    /\ lastMessage = <<Message(StatusChanged, "x1", "procesado", "t2", NONE)>>
    /\ transactions = <<Tx("x1", "procesado", "t2")>>
    /\ toasts = 1

\* C20: the literal frame 'pong' reaches no subscriber, leaves lastMessage, the list
\* and the connection unchanged, and is reported neither by console.warn nor as an error
C20_PongAbsorbed ==
    [][\A k \in DOMAIN sockets :
          FrameDelivered(k, Pong) =>
             /\ NothingDispatched
             /\ ConnectionUntouched
             /\ warnings' = warnings
             /\ errorLogged' = errorLogged
             /\ error' = error]_vars

\* C20 witness: after an event was dispatched, 'pong' arrived on the open socket of the
\* live session; no warning, the connection still up
C20_Witness ==
    /\ lastData = <<Pong>> /\ warnings = 0
    /\ isMounted[1] /\ isConnected /\ timeouts = {}
    /\ \E i \in intervals : sockets[i.socket].readyState = "OPEN"
    /\ lastMessage = <<Message(StatusChanged, "x1", "procesado", "t2", NONE)>>
    /\ toasts = 1

----------------------------------------------------------------------------
\* Claims about dispatch to the subscribers (SpecRouter)

\* the subscribers called for the latest message event, in call order
Called == [i \in DOMAIN dispatch |-> dispatch[i].to]

\* data is a domain event: JSON, and not tagged keepalive
IsDomainEvent(data) == data.kind = "json" /\ data.msg.type # "keepalive"

\* C21: a frame delivered to a live session that is a domain event becomes lastMessage
\* and is handed once to the store's handler and then once to the toast handler, the
\* store's handler applying it to the list; any other frame is handed to no subscriber
C21_DispatchedOnceInOrder ==
    [][\A k \in DOMAIN sockets : \A data \in Frames :
          (FrameDelivered(k, data) /\ isMounted[sockets[k].session]) =>
             IF IsDomainEvent(data)
             THEN /\ Called' = <<"store", "toast">>
                  /\ lastMessage' = <<data.msg>>
                  /\ transactions' = handleWSMessage(transactions, data.msg)
                  /\ ~dispatch'[2].threw => toasts' = toastHandler(toasts, data.msg)
             ELSE dispatch' = <<>>]_vars

\* C21 witness: the status_changed event for x1, held locally as procesado, was handed
\* to the store's handler (x1 is pendiente again) and then to the toast handler (the
\* second toast)
C21_Witness ==
    /\ isMounted[1]
    /\ lastData = <<Json(Message(StatusChanged, "x1", "pendiente", "t1", NONE))>>
    /\ Called = <<"store", "toast">>
    /\ transactions = <<Tx("x1", "pendiente", "t1")>>
    /\ toasts = 2

----------------------------------------------------------------------------
\* Claims about processing (SpecProc)

\* request r settles in this step: its response, or its failure, reaches the caller
Settles(r) == r \in requests /\ \A q \in requests' : q.rid # r.rid

\* a status_changed frame is handled in this step
StatusFrameDelivered ==
    \E k \in DOMAIN sockets :
        /\ sockets'[k].received = sockets[k].received + 1
        /\ lastData' # <<>>
        /\ lastData'[1].kind = "json"
        /\ lastData'[1].msg.event = StatusChanged

\* C23: the step in which a process request settles, with success or with failure,
\* leaves the transaction list as it was; the list changes only in a step that resumes
\* a create or a full fetch after its response, or that handles a status_changed event
C23_ProcessLeavesStore ==
    [][/\ \A r \in requests :
             (r.kind = "process" /\ Settles(r)) => transactions' = transactions
       /\ transactions' # transactions =>
             \/ \E r \in requests :
                   r.kind \in {"list", "create"} /\ r.phase = "served" /\ Settles(r)
             \/ StatusFrameDelivered]_vars

\* C23 witness: the process call for x1 has returned its job id, the job has not run,
\* and the list still holds x1 as pendiente
C23_Witness ==
    /\ \E a \in accepted : a[2] = "x1"
    /\ requests = {}
    /\ "x1" \in {jobs[i] : i \in DOMAIN jobs}
    /\ transactions = <<Tx("x1", "pendiente", "t1")>>

\* the frame that announces that transaction id went from pendiente to procesado
ProcessedFrame(id) ==
    Json(WithOld(Message(StatusChanged, id, "procesado", "t2", NONE), "pendiente"))

\* C26: when a create has returned transaction X, a process call for X has returned its
\* job id, and the frame {status_changed, X, pendiente -> procesado} is then handled on
\* the open connection, the list holds X with status procesado
C26_EndToEnd ==
    [][\A n \in DOMAIN TxIds : \A k \in DOMAIN sockets :
          (/\ \E c \in returned : c[3] = TxIds[n]
           /\ \E a \in accepted : a[2] = TxIds[n]
           /\ sockets[k].readyState = "OPEN"
           /\ isMounted[sockets[k].session]
           /\ FrameDelivered(k, ProcessedFrame(TxIds[n])))
          => \E i \in DOMAIN transactions' :
                /\ transactions'[i].id = TxIds[n]
                /\ transactions'[i].status = "procesado"]_vars

\* C27: once the full fetch has resolved and nothing is under way any more (no request
\* in flight, no job queued, no event undelivered), every status_changed event that was
\* dropped because its id was not in the list has been repaired: the list holds that
\* transaction with the status the event announced
C27_DroppedEventRepaired ==
    (requests = {} /\ jobs = <<>> /\ pushed = <<>> /\ error = NONE /\ ~isLoading) =>
        \A m \in dropped :
            \E i \in DOMAIN transactions :
                /\ transactions[i].id = m.transaction_id
                /\ transactions[i].status = m.new_status

\* C30: every process request is issued for a transaction that the list holds as
\* pendiente at that moment
C30_ProcessOnlyPending ==
    [][\A a \in asked' \ asked :
          \E i \in DOMAIN transactions :
              transactions[i].id = a[2] /\ transactions[i].status = "pendiente"]_vars

\* C30 witness: the list holds x1 as procesado after its status_changed event, no
\* Process button is left on screen, and the one process request made was for x1
C30_Witness ==
    /\ asked = {<<2, "x1">>}
    /\ transactions = <<Tx("x1", "procesado", "t2")>>
    /\ processButtons = {}
    /\ ~isLoading

----------------------------------------------------------------------------
\* Claims about status transitions (SpecFn)

\* the transitions the remote store makes
LegalTransition(from, to) == from = "pendiente" /\ to \in {"procesado", "fallido", "cancelado"}

\* C29: a status_changed event that carries a new_status replaces the status of the
\* record with its id also when the change is not one of pendiente -> {procesado,
\* fallido, cancelado} and also when the event's old_status is not the status held; the
\* other records stay as they were
C29_NoTransitionCheck ==
    (Applied /\ IsStatusChanged /\ ~Falsy(fnMessage.new_status)) =>
        /\ Len(fnOnce) = Len(fnPrev)
        /\ \A i \in DOMAIN fnPrev :
              IF fnPrev[i].id = fnMessage.transaction_id
              THEN (\/ ~LegalTransition(fnPrev[i].status, fnMessage.new_status)
                    \/ fnMessage.old_status # fnPrev[i].status)
                      => fnOnce[i].status = fnMessage.new_status
              ELSE fnOnce[i] = fnPrev[i]

\* C29 witness: x1 is held as procesado and an event that says fallido -> pendiente
\* made it pendiente
C29_Witness ==
    /\ Applied
    /\ fnPrev = <<Tx("x1", "procesado", "t1")>>
    /\ fnMessage = WithOld(Message(StatusChanged, "x1", "pendiente", "t2", NONE), "fallido")
    /\ fnOnce = <<Tx("x1", "pendiente", "t2")>>

\* C37: a status_changed event leaves the number and order of the records as they
\* were, leaves every record with another id exactly as it was, and leaves the id,
\* user_id, monto, tipo and created_at of the records with its id as they were
C37_ReconciliationFrame ==
    (Applied /\ IsStatusChanged) =>
        /\ Len(fnOnce) = Len(fnPrev)
        /\ \A i \in DOMAIN fnPrev :
              IF fnPrev[i].id = fnMessage.transaction_id
              THEN /\ fnOnce[i].id = fnPrev[i].id
                   /\ fnOnce[i].user_id = fnPrev[i].user_id
                   /\ fnOnce[i].monto = fnPrev[i].monto
                   /\ fnOnce[i].tipo = fnPrev[i].tipo
                   /\ fnOnce[i].created_at = fnPrev[i].created_at
              ELSE fnOnce[i] = fnPrev[i]

\* C37 witness: the event for x1 changed the second record's status and updated_at and
\* nothing else; x2, the first record, is as it was
C37_Witness ==
    /\ Applied
    /\ fnMessage = Message(StatusChanged, "x1", "fallido", "t2", NONE)
    /\ fnPrev = <<Tx("x2", "procesado", "t1"), Tx("x1", "pendiente", "t1")>>
    /\ fnOnce = <<Tx("x2", "procesado", "t1"),
                  [Tx("x1", "pendiente", "t1") EXCEPT !.status = "fallido", !.updated_at = "t2"]>>

\* C38: the list is changed only by a status_changed event that carries a
\* transaction_id and a new_status; any other event leaves it exactly as it was
C38_OnlyCompleteStatusEvents ==
    (Applied /\ fnOnce # fnPrev) =>
        /\ fnMessage.event = StatusChanged
        /\ ~Falsy(fnMessage.transaction_id)
        /\ ~Falsy(fnMessage.new_status)

\* C38 witness: a processing_started event that names x1 and carries a new_status met
\* a list holding x1 as pendiente, and the list is as it was
C38_Witness ==
    /\ Applied
    /\ fnMessage = Message("worker.processing_started", "x1", "procesado", "t2", NONE)
    /\ fnPrev = <<Tx("x1", "pendiente", "t1")>>
    /\ fnOnce = fnPrev

\* C39: at most one process request per transaction id is in flight
C39_OneProcessInFlight ==
    \A a, b \in requests :
        (a.kind = "process" /\ b.kind = "process" /\ a.id = b.id) => a.rid = b.rid

----------------------------------------------------------------------------
\* Claims about the api client and the form (Spec)

\* C24: at most one create request of the form is in flight at any time
C24_OneCreateInFlight ==
    Cardinality({r \in requests : r.kind = "create"}) <= 1

\* C24 witness: a second create of the form is in flight (the first one was rejected and
\* the amount is still in the form), and the form is submitting
C24_Witness ==
    /\ \E r \in requests : r.kind = "create" /\ r.key = 4
    /\ isSubmitting
    /\ monto # ""
    /\ Cardinality(sentKeys) = 2

\* the text of `HTTP ${response.status}` for each status the remote store answers with
HttpFallback ==
    [st \in ErrorStatuses |->
        CASE st = 400 -> "HTTP 400" [] st = 404 -> "HTTP 404" [] st = 409 -> "HTTP 409"
          [] st = 422 -> "HTTP 422" [] st = 500 -> "HTTP 500" [] st = 502 -> "HTTP 502"
          [] st = 503 -> "HTTP 503"]

\* C25: a response that is not ok makes request() throw an Error whose message is the
\* body text when that is not empty and 'HTTP <status>' when it is; an ok response makes
\* it return the parsed body, not the text, and throw nothing
C25_RequestOutcome ==
    reqOut # <<>> =>
        LET r == reqIn.response
            out == reqOut[1]
        IN IF r.ok
           THEN /\ ~out.threw
                /\ out.value = parseJson(r.body)
           ELSE /\ out.threw
                /\ r.body # "" => out.message = r.body
                /\ r.body = "" => out.message = HttpFallback[r.status]

\* C25 witness: the process request was answered 503 with an empty body, and the caller
\* got an Error saying HTTP 503
C25_Witness ==
    /\ reqIn = [path |-> "/transactions/async-process?transaction_id=x1",
                response |-> Response(FALSE, 503, "")]
    /\ reqOut = <<Thrown("HTTP 503")>>

\* C28: no two create requests carry the same Idempotency-Key
C28_KeyPerRequest ==
    \A a, b \in sentKeys : a[1] # b[1] => a[3] # b[3]

\* C28 witness: the create of one form submission failed and the same submission was
\* sent again; the two requests carry different keys
C28_Witness ==
    \E a, b \in sentKeys : a[1] # b[1] /\ a[2] = b[2] /\ a[3] # b[3]

\* C32: no transaction id occurs twice in the list
C32_NoDuplicateIds ==
    \A i, j \in DOMAIN transactions :
        transactions[i].id = transactions[j].id => i = j

\* a create request fails in this step: it leaves the requests in flight and no create
\* call returns
CreateRejected(r) ==
    r \in requests /\ r.kind = "create" /\ r \notin requests'
    /\ (\A q \in requests' : q.rid # r.rid) /\ returned' = returned

\* C34: the step in which a create request fails leaves the list, the selected id and
\* the amount in the form as they were and resets isSubmitting; the step in which any
\* create request settles resets isSubmitting; and isSubmitting is set only while a
\* create request is in flight
C34_FailedCreateConsistent ==
    [][/\ \A r \in requests :
             CreateRejected(r) =>
                /\ transactions' = transactions
                /\ selectedId' = selectedId
                /\ monto' = monto
                /\ ~isSubmitting'
       /\ \A r \in requests :
             (r.kind = "create" /\ \A q \in requests' : q.rid # r.rid) => ~isSubmitting'
       /\ isSubmitting' => \E r \in requests' : r.kind = "create"]_vars

\* C34 witness: the only create request failed; nothing was created locally, the amount
\* is still in the form and the form accepts a submission again
C34_Witness ==
    /\ Cardinality(sentKeys) = 1
    /\ \A r \in requests : r.kind # "create"
    /\ returned = {}
    /\ ~isSubmitting
    /\ monto # ""
    /\ selectedId = NONE

----------------------------------------------------------------------------
\* Claims about the hook's indicator and timers (SpecConn)

\* C33: isConnected is true only while the socket wsRef holds is OPEN
C33_IndicatorAccurate ==
    isConnected => (wsRef # 0 /\ sockets[wsRef].readyState = "OPEN")

\* C35: at most one keepalive interval is active; an active interval belongs to a socket
\* of a live session that has opened and whose close has not been handled; and a
\* liveness frame is sent only on a socket that is OPEN
C35_OneKeepaliveTimer ==
    /\ [](/\ Cardinality(intervals) <= 1
          /\ \A i \in intervals :
                /\ sockets[i.socket].wasOpen
                /\ sockets[i.socket].readyState # "CLOSED"
                /\ isMounted[sockets[i.socket].session])
    /\ [][\A k \in DOMAIN sockets :
            sockets'[k].pings # sockets[k].pings => sockets[k].readyState = "OPEN"]_vars

\* C35 witness: the first session's socket had opened and was closed by a change of the
\* deps; the second session's socket is open and owns the only interval
C35_Witness ==
    /\ Len(isMounted) = 2
    /\ Len(sockets) = 2
    /\ sockets[1].wasOpen /\ sockets[1].readyState \in {"CLOSING", "CLOSED"}
    /\ sockets[2].readyState = "OPEN"
    /\ {i.socket : i \in intervals} = {2}

\* C36: a session has at most one reconnect timeout pending, and none while one of its
\* sockets is CONNECTING or OPEN
C36_OneReconnectTimer ==
    \A s \in Sessions :
        /\ Cardinality(TimeoutsOf(s)) <= 1
        /\ TimeoutsOf(s) # {} =>
              \A k \in SocketsOf(s) : sockets[k].readyState \notin {"CONNECTING", "OPEN"}

\* C36 witness: after a change of the deps the second session lost its connection; its
\* socket is closed, one reconnect timeout is pending for it and none for the first
C36_Witness ==
    /\ Len(isMounted) = 2 /\ isMounted[2]
    /\ SocketsOf(2) # {}
    /\ \A k \in SocketsOf(2) : sockets[k].readyState = "CLOSED"
    /\ Cardinality(TimeoutsOf(2)) = 1
    /\ TimeoutsOf(1) = {}

----------------------------------------------------------------------------
\* The hook while its owner hands it new onMessage callbacks

CbFrames ==
    {Pong,
     Json(Message("keepalive", NONE, NONE, NONE, "keepalive")),
     Json(Message(StatusChanged, "x1", "procesado", "t2", NONE))}

InitCb ==
    /\ InitHook(Deps(TRUE, DefaultReconnectInterval))
    /\ InitApp
    /\ InitNet(<<>>)
    /\ InitFnIdle

NextCb ==
    \/ \E k \in DOMAIN sockets : OnOpen(k, MaxCbAttempts)
    \/ \E k \in DOMAIN sockets : OnClose(k, MaxCbAttempts)
    \/ \E t \in timeouts : ReconnectTimer(t, MaxCbAttempts)
    \/ \E k \in DOMAIN sockets, data \in CbFrames : OnMessage(k, data, MaxCbFrames)
    \/ ChangeOnMessage(MaxCallbacks)
    \/ \E d \in ReconnectIntervals :
          ChangeDeps(Deps(TRUE, d), MaxCbAttempts, MaxSessions)

SpecCb == InitCb /\ [][NextCb]_vars

connectionVars ==
    <<isMounted, session, sockets, wsRef, reconnectTimeoutRef, pingIntervalRef, timeouts,
      intervals, nextTimerId, isConnected, attempts, closes>>

\* a frame arrives that ws.onmessage forwards
Forwarded(k) ==
    /\ sockets'[k].received = sockets[k].received + 1
    /\ isMounted[sockets[k].session]
    /\ lastData'[1].kind = "json"
    /\ lastData'[1].msg.type # "keepalive"

\* C31: a step that changes the onMessage callback leaves the sessions, the sockets, the
\* timers and isConnected as they were; a frame the hook forwards is handed to the callback
\* the ref holds, which is the newest one, once and to no other; and a new session starts
\* only in a step in which url or reconnectInterval changed and the callback did not
C31_CallbackChangeKeepsConnection ==
    [][/\ onMessageRef' # onMessageRef => UNCHANGED connectionVars
       /\ \A k \in DOMAIN sockets : Forwarded(k) => calledBack' = <<onMessageRef>>
       /\ calledBack' # calledBack => calledBack' \in {<<>>, <<onMessageRef>>}
       /\ Len(isMounted') # Len(isMounted) =>
             /\ onMessageRef' = onMessageRef
             /\ Len(isMounted') = Len(isMounted) + 1
             /\ session'[Len(isMounted')] # session[Len(isMounted)]]_vars

\* C31 witness: the callback was replaced while the socket was open, and the next frame
\* went to the second callback, on the socket of the first session
C31_Witness ==
    /\ onMessageRef = 2
    /\ calledBack = <<2>>
    /\ Len(isMounted) = 1 /\ Len(sockets) = 1
    /\ sockets[1].readyState = "OPEN" /\ isConnected
    /\ intervals # {}

====
